---- MODULE Spec2Model ----
(***************************************************************************)
(* Model of the Stripe subscription pipeline's table-upsert handler        *)
(* (lib/lambda/dynamo_put.py): one invocation of lambda_handler is a       *)
(* sequence of blocking external calls (SSM, Secrets Manager, Stripe,      *)
(* DynamoDB); the subscribers table is keyed by email.                     *)
(***************************************************************************)
EXTENDS Integers, Sequences, FiniteSets, TLC

(* ------------------------------ bounds -------------------------------- *)
\* The wall clock counts seconds from 0 to MaxClock.
MaxClock == 2
\* Seconds in one calendar day at the model's scale.
DayLen == 2
\* Significand bits of a float at the model's scale (a Python float has 53).
Precision == 5
\* Lambda service exceptions one execution of the state machine meets; fewer
\* than the attempts a task's retry allows, so each of them is retried.
MaxServiceFaults == 2

(* ------------------------- program constants -------------------------- *)
\* A loop that gives up one attempt early.
MaxRetriesOneLess == 5 - 1
max_retries == 5
base_delay == 5

(* ------------------------------ values -------------------------------- *)
\* Python's None, for string-valued and for number-valued fields.
None == "None"
NoneNum == 0 - 1

Procs == {1, 2}

UpsertTypes ==
  {"customer.subscription.created", "customer.subscription.resumed",
   "customer.subscription.updated"}
DeletedType == "customer.subscription.deleted"
PausedType == "customer.subscription.paused"
KnownTypes == UpsertTypes \cup {DeletedType, PausedType}
\* detail-type values an invocation can be handed: the five lifecycle kinds,
\* a kind the handler does not know, and an empty discriminator.
EventTypes == KnownTypes \cup {"invoice.paid", ""}

SubIds == {"sub_1", "sub_2"}
Events == [type : EventTypes, id : SubIds]
NoEvent == [type |-> None, id |-> None]

\* The customers Stripe holds.
StripeCustomers ==
  [c \in {"cus_1"} |->
     [id |-> "cus_1", email |-> "a@example.com", name |-> "A", address |-> "addr_A"]]
NoCustomer == [id |-> None, email |-> None, name |-> None, address |-> None]
Emails == {StripeCustomers[c].email : c \in DOMAIN StripeCustomers}

\* The part of a subscription Stripe never changes here: its customer
\* reference (sub_2 has none), start timestamp and plan.
SubCustomer(s) == IF s = "sub_1" THEN "cus_1" ELSE None
SubHasPlan(s) == s = "sub_1"
\* The subscriptions Stripe goes on changing.
MutableSubs == {"sub_1"}
\* The part Stripe changes over a subscription's life.
SubStates(t) ==
  {[status |-> "active", canceled_at |-> NoneNum],
   [status |-> "paused", canceled_at |-> NoneNum],
   [status |-> "canceled", canceled_at |-> t]}
NoSub ==
  [id |-> None, customer |-> None, status |-> None, start_date |-> NoneNum,
   canceled_at |-> NoneNum, has_plan |-> FALSE, plan_id |-> None, plan_amount |-> NoneNum]

Attributes ==
  {"email", "subscription_id", "customer_id", "full_name", "subscriber_info",
   "status", "start_date", "end_date", "plan_id", "amount", "last_updated",
   "subscription_date", "signup_timestamp"}
NoItem == [email |-> None]

NoResult == [kind |-> "none", wrapper |-> None, cause |-> None, payload |-> [status |-> None]]

(* --------------- the state machine of lib/statemachine.py ------------- *)
\* The five LambdaInvoke states that call the upsert handler.
HandleTasks ==
  {"HandleSubscriptionCreated", "HandleSubscriptionUpdated", "HandleSubscriptionDeleted",
   "HandleSubscriptionPaused", "HandleSubscriptionResumed"}

\* A Choice state whose every rule leads to a handler.
ChoiceWithoutOtherwise(doc) ==
  IF doc.type = "customer.subscription.updated" THEN "HandleSubscriptionUpdated"
  ELSE IF doc.type = "customer.subscription.deleted" THEN "HandleSubscriptionDeleted"
  ELSE IF doc.type = "customer.subscription.paused" THEN "HandleSubscriptionPaused"
  ELSE IF doc.type = "customer.subscription.resumed" THEN "HandleSubscriptionResumed"
  ELSE "HandleSubscriptionCreated"

\* ChooseSubscriptionEventType: the rules on $.detail-type in their order,
\* then the default.
ChoiceNext(doc) ==
  IF doc.type = "customer.subscription.created" THEN "HandleSubscriptionCreated"
  ELSE IF doc.type = "customer.subscription.updated" THEN "HandleSubscriptionUpdated"
  ELSE IF doc.type = "customer.subscription.deleted" THEN "HandleSubscriptionDeleted"
  ELSE IF doc.type = "customer.subscription.paused" THEN "HandleSubscriptionPaused"
  ELSE IF doc.type = "customer.subscription.resumed" THEN "HandleSubscriptionResumed"
  ELSE "IgnoreUnknownEvent"

\* parse_event.lambda_handler returns dict(event): a new dict of the same
\* keys and values.
ParseEvent(ev) == [k \in DOMAIN ev |-> ev[k]]
\* What a LambdaInvoke task yields: the invoke response, the function's
\* return value under Payload (payload_response_only is left at its default).
TaskResult(payload) == [Payload |-> payload, StatusCode |-> 200]
\* result_path="$.ParseResult": the state's input with the task's result
\* added under that key.
ResultPath(doc, res) == [ParseResult |-> res] @@ doc
\* input_path="$.ParseResult": what a handler task hands to the function.
InputPath(doc) == doc.ParseResult

NoExecution ==
  [state |-> "NotStarted", data |-> NoEvent, visited |-> <<>>, parsed |-> 0,
   inputs |-> <<>>, faults |-> 0, running |-> FALSE]

VARIABLES
  table,      \* the subscribers table: a set of rows (records holding "email")
  stripe,     \* Stripe's current state of each subscription
  now,        \* the wall clock, in seconds
  pc,         \* each invocation's position in lambda_handler
  event,      \* each invocation's event: Payload.detail-type and the subscription id
  sub,        \* the subscription snapshot the invocation fetched
  customer,   \* the customer snapshot the invocation fetched
  attempt,    \* retrieve_customer's loop variable
  lookups,    \* the outcomes of the customer lookups made, in order
  sleeps,     \* the delays slept between lookups, in order: the nominal delay
              \* in seconds, or under SpecBackoff sleep_time in 1/Scale seconds
  item,       \* the item lambda_handler derived
  writes,     \* the storage calls the invocation issued, in order
  lastWriter, \* the invocation whose storage call changed the table last (0: none)
  before,     \* the table as it was when the invocation started
  replay,     \* the invocation repeats the one before it: same event, same upstream data
  result,     \* how the invocation ended
  exec        \* the state machine's execution: where it is and what it did

vars ==
  <<table, stripe, now, lastWriter, pc, event, sub, customer,
    attempt, lookups, sleeps, item, writes, before, replay, result, exec>>

envVars == <<stripe, now>>
invVars == <<event, sub, customer, attempt, lookups, sleeps, item, writes, before, replay, result>>

\* One entry of writes: the call, what it was given, whether it succeeded.
Call(op, arg, ok) == [op |-> op, arg |-> arg, ok |-> ok]

(* --------------------------- pure functions --------------------------- *)
\* strftime('%Y-%m-%d') keeps the day of a clock reading. The clock counts
\* whole seconds, so strftime('%Y-%m-%dT%H:%M:%SZ') drops nothing of one.
DateStamp(t) == t \div DayLen

\* stripe.Subscription.retrieve: the snapshot of subscription s.
Snapshot(s) ==
  [id |-> s, customer |-> SubCustomer(s), status |-> stripe[s].status,
   start_date |-> 0, canceled_at |-> stripe[s].canceled_at,
   has_plan |-> SubHasPlan(s),
   plan_id |-> IF SubHasPlan(s) THEN "plan_1" ELSE None,
   plan_amount |-> IF SubHasPlan(s) THEN 999 ELSE NoneNum]

\* The item of lines 155-177, stamped with three successive clock readings.
DeriveItem(s, c, t1, t2, t3) ==
  [email |-> c.email,
   subscription_id |-> s.id,
   customer_id |-> c.id,
   full_name |-> c.name,
   subscriber_info |-> c.address,
   status |-> s.status,
   start_date |-> s.start_date,
   end_date |-> s.canceled_at,
   plan_id |-> IF s.has_plan THEN s.plan_id ELSE None,
   amount |-> IF s.has_plan THEN s.plan_amount ELSE NoneNum,
   last_updated |-> DateStamp(t1),
   subscription_date |-> DateStamp(t2),
   signup_timestamp |-> t3]

RowsFor(tbl, e) == {r \in tbl : r.email = e}

\* A put_item that adds the item and leaves the row with its key in place.
PutItemAppends(tbl, it) == tbl \cup {it}
\* A put_item that stores the item only when its key has no row.
PutItemIfAbsent(tbl, it) == IF RowsFor(tbl, it.email) = {} THEN tbl \cup {it} ELSE tbl

\* DynamoDB put_item: the item replaces whatever row has its key.
PutItemResult(tbl, it) == (tbl \ RowsFor(tbl, it.email)) \cup {it}

\* DynamoDB update_item with a SET expression and no condition: the named
\* attributes are set on the row with that key, and a row holding the key and
\* those attributes is added when the key has none.
UpdateItemResult(tbl, key, sets) ==
  IF RowsFor(tbl, key) = {}
  THEN tbl \cup {sets @@ [email |-> key]}
  ELSE (tbl \ RowsFor(tbl, key)) \cup {sets @@ r : r \in RowsFor(tbl, key)}

\* A "deleted" update that also restamps subscription_date.
DeletedUpdatesRestamp(it) ==
  [status |-> "canceled", end_date |-> it.end_date, last_updated |-> it.last_updated,
   subscription_date |-> it.subscription_date]
\* A "deleted" update that stores the subscription's own status.
DeletedUpdatesOwnStatus(it) ==
  [status |-> it.status, end_date |-> it.end_date, last_updated |-> it.last_updated]
\* A "paused" update that also sets end_date, as the "deleted" one does.
PausedUpdatesEndDate(it) ==
  [status |-> "paused", end_date |-> it.end_date, last_updated |-> it.last_updated]

\* The SET expressions of the two partial updates.
DeletedUpdates(it) ==
  [status |-> "canceled", end_date |-> it.end_date, last_updated |-> it.last_updated]
PausedUpdates(it) ==
  [status |-> "paused", last_updated |-> it.last_updated]

\* A loop that retries every InvalidRequestError, whatever its code.
RetryableAnyInvalidRequest(outcome) == outcome \in {"resource_missing", "invalid_request"}

\* Which outcomes of stripe.Customer.retrieve the loop retries.
Retryable(outcome) == outcome = "resource_missing"
LookupOutcomes == {"ok", "resource_missing", "invalid_request", "stripe_error", "unexpected"}
\* A backoff that does not double.
DelayWithoutDoubling(k) == base_delay

\* The nominal delay after failed attempt k.
Delay(k) == base_delay * (2 ^ (k - 1))

\* Float arithmetic of lines 103-105. A float is held as a whole number of
\* units of 1/Scale second, the spacing of the smallest jitter bound's draws;
\* a result is kept to Precision significant bits, rounded to nearest, ties
\* to even.
Scale == 2 ^ (Precision + 1)
RECURSIVE Bits(_)
Bits(x) == IF x = 0 THEN 0 ELSE 1 + Bits(x \div 2)
Ulp(x) == IF Bits(x) <= Precision THEN 1 ELSE 2 ^ (Bits(x) - Precision)
RoundFloat(x) ==
  LET u == Ulp(x)
      q == x \div u
      r == x % u
  IN  IF 2 * r < u THEN q * u
      ELSE IF 2 * r > u THEN (q + 1) * u
      ELSE IF q % 2 = 0 THEN q * u ELSE (q + 1) * u
\* random.random() returns m / 2^Precision for a whole m: a float in [0, 1).
RandomValues == 0 .. (2 ^ Precision) - 1
\* random.uniform(a, b) is a + (b - a) * random(), each step rounded. The
\* quotients below are exact for the delays of the loop.
Uniform(a, b, m) == RoundFloat(a + RoundFloat(((b - a) * m) \div (2 ^ Precision)))
\* 0.1 * delay.
TenthOf(x) == RoundFloat(x \div 10)
\* sleep_time after failed attempt k when random() returned m / 2^Precision.
SleepTime(k, m) ==
  LET delay == Delay(k) * Scale
      jitter == Uniform(0, TenthOf(delay), m)
  IN  RoundFloat(delay + jitter)

(* ------------------------- how an invocation ends --------------------- *)
\* The two except clauses of lambda_handler: a ClientError is re-raised with
\* the "DynamoDB ClientError" text, everything else with the catch-all text.
Wrap(cause) == IF cause = "ClientError" THEN "StorageOperationError" ELSE "ProcessingError"
Raised(cause) ==
  [kind |-> "raised", wrapper |-> Wrap(cause), cause |-> cause, payload |-> [status |-> None]]
ErrorDict(message) ==
  [kind |-> "returned", wrapper |-> None, cause |-> None,
   payload |-> [status |-> "error", message |-> message]]
Success(it, operation, updated) ==
  [kind |-> "returned", wrapper |-> None, cause |-> None,
   payload |-> [message |-> operation, subscription_id |-> it.subscription_id,
                customer_id |-> it.customer_id, operation |-> operation,
                updated_fields |-> updated]]

\* The invocation returned the success payload after storage call op.
SucceededWith(i, op) ==
  /\ pc[i] = "done"
  /\ result[i].kind = "returned"
  /\ writes[i] # <<>>
  /\ writes[i][Len(writes[i])].ok
  /\ writes[i][Len(writes[i])].op = op

\* Row or item it carries the upstream data of snapshot s.
SameUpstream(it, s) ==
  /\ it.subscription_id = s.id
  /\ it.status = s.status
  /\ it.end_date = s.canceled_at

\* The handler's frame ends with it: its locals are gone.
End(i, res) ==
  /\ pc' = [pc EXCEPT ![i] = "done"]
  /\ result' = [result EXCEPT ![i] = res]
  /\ sub' = [sub EXCEPT ![i] = NoSub]
  /\ customer' = [customer EXCEPT ![i] = NoCustomer]
  /\ attempt' = [attempt EXCEPT ![i] = 0]
  /\ item' = [item EXCEPT ![i] = NoItem]

(* ------------------------------- Init --------------------------------- *)
Init ==
  /\ table = {}
  /\ stripe = [s \in SubIds |-> [status |-> "active", canceled_at |-> NoneNum]]
  /\ now = 0
  /\ pc = [i \in Procs |-> "idle"]
  /\ event = [i \in Procs |-> NoEvent]
  /\ sub = [i \in Procs |-> NoSub]
  /\ customer = [i \in Procs |-> NoCustomer]
  /\ attempt = [i \in Procs |-> 0]
  /\ lookups = [i \in Procs |-> <<>>]
  /\ sleeps = [i \in Procs |-> <<>>]
  /\ item = [i \in Procs |-> NoItem]
  /\ writes = [i \in Procs |-> <<>>]
  /\ lastWriter = 0
  /\ before = [i \in Procs |-> {}]
  /\ replay = [i \in Procs |-> FALSE]
  /\ result = [i \in Procs |-> NoResult]
  /\ exec = NoExecution

(* ------------------------------ actions ------------------------------- *)
\* The orchestrator invokes the handler with an event.
Invoke(i, ev) ==
  /\ event' = [event EXCEPT ![i] = ev]
  /\ pc' = [pc EXCEPT ![i] = "config"]
  /\ lookups' = [lookups EXCEPT ![i] = <<>>]
  /\ sleeps' = [sleeps EXCEPT ![i] = <<>>]
  /\ writes' = [writes EXCEPT ![i] = <<>>]
  /\ before' = [before EXCEPT ![i] = table]
  /\ replay' = [replay EXCEPT ![i] =
                  /\ ev = event[i]
                  /\ SucceededWith(i, "put_item")
                  /\ SameUpstream(writes[i][1].arg, Snapshot(ev.id))]
  /\ result' = [result EXCEPT ![i] = NoResult]
  /\ UNCHANGED <<table, lastWriter, envVars, sub, customer, attempt, item>>

\* One event after another: the next invocation starts when the last has ended.
Start(i) ==
  /\ pc[i] \in {"idle", "done"}
  /\ \E ev \in Events : Invoke(i, ev)
  /\ UNCHANGED exec

\* An "updated" event of subscriber sub_1 reaches an idle invocation.
StartUpdated(i) ==
  /\ pc[i] = "idle"
  /\ Invoke(i, [type |-> "customer.subscription.updated", id |-> "sub_1"])
  /\ UNCHANGED exec

\* get_table_name_from_ssm: the parameter resolves, or the lookup raises.
GetTableName(i) ==
  /\ pc[i] = "config"
  /\ \/ /\ pc' = [pc EXCEPT ![i] = "secret"]
        /\ UNCHANGED <<result, sub, customer, attempt, item>>
     \/ End(i, Raised("ConfigurationError"))
  /\ UNCHANGED <<exec, table, lastWriter, envVars, event, lookups, sleeps, writes,
                 before, replay>>

\* get_secret and the api_key test of lines 137-142.
GetSecret(i) ==
  /\ pc[i] = "secret"
  /\ \/ /\ pc' = [pc EXCEPT ![i] = "fetch_sub"]
        /\ UNCHANGED <<result, sub, customer, attempt, item>>
     \/ End(i, ErrorDict("API key not found."))
     \/ End(i, Raised("ConfigurationError"))
  /\ UNCHANGED <<exec, table, lastWriter, envVars, event, lookups, sleeps, writes,
                 before, replay>>

\* retrieve_subscription and the customer test of lines 144-149.
RetrieveSubscription(i) ==
  /\ pc[i] = "fetch_sub"
  /\ \/ /\ replay' = [replay EXCEPT ![i] =
                        /\ @
                        /\ \A r \in before[i] : SameUpstream(r, Snapshot(event[i].id))]
        /\ IF Snapshot(event[i].id).customer = None
           THEN End(i, ErrorDict("No customer ID found in subscription."))
           ELSE /\ sub' = [sub EXCEPT ![i] = Snapshot(event[i].id)]
                /\ pc' = [pc EXCEPT ![i] = "fetch_cus"]
                /\ attempt' = [attempt EXCEPT ![i] = 1]
                /\ UNCHANGED <<result, customer, item>>
     \/ /\ End(i, Raised("LookupError"))
        /\ UNCHANGED replay
  /\ UNCHANGED <<exec, table, lastWriter, envVars, event, lookups, sleeps, writes, before>>

\* One pass of retrieve_customer's loop: a lookup and what follows it.
RetrieveCustomer(i) ==
  /\ pc[i] = "fetch_cus"
  /\ \E outcome \in LookupOutcomes :
       /\ lookups' = [lookups EXCEPT ![i] = Append(@, outcome)]
       /\ IF outcome = "ok"
          THEN /\ customer' = [customer EXCEPT ![i] = StripeCustomers[sub[i].customer]]
               /\ pc' = [pc EXCEPT ![i] = "build"]
               /\ attempt' = [attempt EXCEPT ![i] = 0]
               /\ UNCHANGED <<sub, item, sleeps, result>>
          ELSE IF Retryable(outcome)
          THEN IF attempt[i] = max_retries
               THEN /\ End(i, Raised("CustomerResolutionError"))
                    /\ UNCHANGED sleeps
               ELSE /\ sleeps' = [sleeps EXCEPT ![i] = Append(@, Delay(attempt[i]))]
                    /\ attempt' = [attempt EXCEPT ![i] = @ + 1]
                    /\ UNCHANGED <<sub, customer, item, pc, result>>
          ELSE /\ End(i, Raised("LookupError"))
               /\ UNCHANGED sleeps
  /\ UNCHANGED <<exec, table, lastWriter, envVars, event, writes, before, replay>>

\* The same pass with the jitter drawn: what it sleeps is sleep_time.
RetrieveCustomerJittered(i) ==
  /\ pc[i] = "fetch_cus"
  /\ \E outcome \in LookupOutcomes :
       /\ lookups' = [lookups EXCEPT ![i] = Append(@, outcome)]
       /\ IF outcome = "ok"
          THEN /\ customer' = [customer EXCEPT ![i] = StripeCustomers[sub[i].customer]]
               /\ pc' = [pc EXCEPT ![i] = "build"]
               /\ attempt' = [attempt EXCEPT ![i] = 0]
               /\ UNCHANGED <<sub, item, sleeps, result>>
          ELSE IF Retryable(outcome)
          THEN IF attempt[i] = max_retries
               THEN /\ End(i, Raised("CustomerResolutionError"))
                    /\ UNCHANGED sleeps
               ELSE /\ \E m \in RandomValues :
                         sleeps' = [sleeps EXCEPT ![i] = Append(@, SleepTime(attempt[i], m))]
                    /\ attempt' = [attempt EXCEPT ![i] = @ + 1]
                    /\ UNCHANGED <<sub, customer, item, pc, result>>
          ELSE /\ End(i, Raised("LookupError"))
               /\ UNCHANGED sleeps
  /\ UNCHANGED <<exec, table, lastWriter, envVars, event, writes, before, replay>>

\* Lines 151-177: the presence test, then the item, whose three stamps are
\* three readings of the clock.
BuildItem(i) ==
  /\ pc[i] = "build"
  /\ IF event[i].type = ""
     THEN /\ End(i, Raised("ValidationError"))
          /\ UNCHANGED now
     ELSE \E t2 \in now .. now + 1 : \E t3 \in t2 .. t2 + 1 :
            /\ t3 <= MaxClock
            /\ item' = [item EXCEPT ![i] = DeriveItem(sub[i], customer[i], now, t2, t3)]
            /\ now' = t3
            /\ pc' = [pc EXCEPT ![i] = "write"]
            /\ sub' = [sub EXCEPT ![i] = NoSub]
            /\ customer' = [customer EXCEPT ![i] = NoCustomer]
            /\ UNCHANGED <<result, attempt>>
  /\ UNCHANGED <<exec, table, lastWriter, stripe, event, lookups, sleeps, writes,
                 before, replay>>

\* A put_item branch that stores the item a second time.
PutItemTwice(i) ==
  /\ pc[i] = "write"
  /\ event[i].type \in UpsertTypes
  /\ table' = PutItemResult(PutItemResult(table, item[i]), item[i])
  /\ writes' = [writes EXCEPT ![i] =
                  Append(Append(@, Call("put_item", item[i], TRUE)),
                         Call("put_item", item[i], TRUE))]
  /\ lastWriter' = i
  /\ End(i, Success(item[i], "inserted/updated", [none |-> None]))
  /\ UNCHANGED <<exec, envVars, event, lookups, sleeps, before, replay>>

\* Lines 182-187: put_item, which stores the item or raises a ClientError.
PutItem(i) ==
  /\ pc[i] = "write"
  /\ event[i].type \in UpsertTypes
  /\ \/ /\ table' = PutItemResult(table, item[i])
        /\ writes' = [writes EXCEPT ![i] = Append(@, Call("put_item", item[i], TRUE))]
        /\ lastWriter' = i
        /\ End(i, Success(item[i], "inserted/updated", [none |-> None]))
     \/ /\ writes' = [writes EXCEPT ![i] = Append(@, Call("put_item", item[i], FALSE))]
        /\ End(i, Raised("ClientError"))
        /\ UNCHANGED <<table, lastWriter>>
  /\ UNCHANGED <<exec, envVars, event, lookups, sleeps, before, replay>>

\* Lines 188-206: the partial update of a deleted subscription.
UpdateDeleted(i) ==
  /\ pc[i] = "write"
  /\ event[i].type = DeletedType
  /\ \/ /\ table' = UpdateItemResult(table, item[i].email, DeletedUpdates(item[i]))
        /\ writes' = [writes EXCEPT ![i] =
                        Append(@, Call("update_item", DeletedUpdates(item[i]), TRUE))]
        /\ lastWriter' = i
        /\ End(i, Success(item[i], "canceled", DeletedUpdates(item[i])))
     \/ /\ writes' = [writes EXCEPT ![i] =
                        Append(@, Call("update_item", DeletedUpdates(item[i]), FALSE))]
        /\ End(i, Raised("ClientError"))
        /\ UNCHANGED <<table, lastWriter>>
  /\ UNCHANGED <<exec, envVars, event, lookups, sleeps, before, replay>>

\* Lines 207-223: the partial update of a paused subscription.
UpdatePaused(i) ==
  /\ pc[i] = "write"
  /\ event[i].type = PausedType
  /\ \/ /\ table' = UpdateItemResult(table, item[i].email, PausedUpdates(item[i]))
        /\ writes' = [writes EXCEPT ![i] =
                        Append(@, Call("update_item", PausedUpdates(item[i]), TRUE))]
        /\ lastWriter' = i
        /\ End(i, Success(item[i], "paused", PausedUpdates(item[i])))
     \/ /\ writes' = [writes EXCEPT ![i] =
                        Append(@, Call("update_item", PausedUpdates(item[i]), FALSE))]
        /\ End(i, Raised("ClientError"))
        /\ UNCHANGED <<table, lastWriter>>
  /\ UNCHANGED <<exec, envVars, event, lookups, sleeps, before, replay>>

\* Lines 224-226: any other discriminator raises.
Unhandled(i) ==
  /\ pc[i] = "write"
  /\ event[i].type \notin KnownTypes
  /\ End(i, Raised("UnsupportedEventTypeError"))
  /\ UNCHANGED <<exec, table, lastWriter, envVars, event, lookups, sleeps, writes,
                 before, replay>>

\* Time passes.
Tick ==
  /\ now < MaxClock
  /\ now' = now + 1
  /\ UNCHANGED <<exec, table, lastWriter, stripe, pc, invVars>>

\* Stripe changes a subscription (the change the next event reports).
UpstreamChange ==
  /\ \E s \in MutableSubs : \E st \in SubStates(now) :
       /\ st # stripe[s]
       /\ stripe' = [stripe EXCEPT ![s] = st]
  /\ UNCHANGED <<exec, table, lastWriter, now, pc, invVars>>

Next ==
  \/ \E i \in {1} :
       \/ Start(i)
       \/ GetTableName(i)
       \/ GetSecret(i)
       \/ RetrieveSubscription(i)
       \/ RetrieveCustomer(i)
       \/ BuildItem(i)
       \/ PutItem(i)
       \/ UpdateDeleted(i)
       \/ UpdatePaused(i)
       \/ Unhandled(i)
  \/ Tick
  \/ UpstreamChange

Spec == Init /\ [][Next]_vars

\* Two invocations side by side, each for an "updated" event of the same
\* subscriber.
NextConc ==
  \/ \E i \in Procs :
       \/ StartUpdated(i)
       \/ GetTableName(i)
       \/ GetSecret(i)
       \/ RetrieveSubscription(i)
       \/ RetrieveCustomer(i)
       \/ BuildItem(i)
       \/ PutItem(i)
  \/ Tick
  \/ UpstreamChange

SpecConc == Init /\ [][NextConc]_vars

\* retrieve_customer on its own, with its jittered sleeps: the handler has
\* just called it for the customer of sub_1.
InitBackoff ==
  /\ table = {}
  /\ stripe = [s \in SubIds |-> [status |-> "active", canceled_at |-> NoneNum]]
  /\ now = 0
  /\ pc = [i \in Procs |-> IF i = 1 THEN "fetch_cus" ELSE "idle"]
  /\ event = [i \in Procs |-> IF i = 1
                                THEN [type |-> "customer.subscription.updated", id |-> "sub_1"]
                                ELSE NoEvent]
  /\ sub = [i \in Procs |-> IF i = 1 THEN Snapshot("sub_1") ELSE NoSub]
  /\ customer = [i \in Procs |-> NoCustomer]
  /\ attempt = [i \in Procs |-> IF i = 1 THEN 1 ELSE 0]
  /\ lookups = [i \in Procs |-> <<>>]
  /\ sleeps = [i \in Procs |-> <<>>]
  /\ item = [i \in Procs |-> NoItem]
  /\ writes = [i \in Procs |-> <<>>]
  /\ lastWriter = 0
  /\ before = [i \in Procs |-> {}]
  /\ replay = [i \in Procs |-> FALSE]
  /\ result = [i \in Procs |-> NoResult]
  /\ exec = NoExecution

NextBackoff == \E i \in {1} : RetrieveCustomerJittered(i)

SpecBackoff == InitBackoff /\ [][NextBackoff]_vars

(* ------------------ one execution of the state machine ---------------- *)
\* The execution moves to state st.
Enter(st) == [exec EXCEPT !.state = st, !.visited = Append(@, st)]

\* The rule's target, or any other caller, starts an execution with an event.
StartExecution ==
  /\ exec.state = "NotStarted"
  /\ \E ev \in Events :
       exec' = [NoExecution EXCEPT !.state = "ParseStripeEvent", !.data = ev,
                                   !.visited = <<"ParseStripeEvent">>]
  /\ UNCHANGED <<table, lastWriter, envVars, pc, invVars>>

\* ParseStripeEvent: the function returns and its result is stored under
\* $.ParseResult, or the function fails and with it the execution, or the
\* Lambda service fails and the task's retry (retry_on_service_exceptions is
\* left at its default) repeats the call.
ParseStripeEvent ==
  /\ exec.state = "ParseStripeEvent"
  /\ \/ exec' = [Enter("ChooseSubscriptionEventType") EXCEPT
                   !.data = ResultPath(exec.data, TaskResult(ParseEvent(exec.data))),
                   !.parsed = @ + 1]
     \/ exec' = Enter("Failed")
     \/ /\ exec.faults < MaxServiceFaults
        /\ exec' = [exec EXCEPT !.faults = @ + 1]
  /\ UNCHANGED <<table, lastWriter, envVars, pc, invVars>>

ChooseSubscriptionEventType ==
  /\ exec.state = "ChooseSubscriptionEventType"
  /\ exec' = Enter(ChoiceNext(exec.data))
  /\ UNCHANGED <<table, lastWriter, envVars, pc, invVars>>

\* The Pass state: the execution ends there.
IgnoreUnknownEvent ==
  /\ exec.state = "IgnoreUnknownEvent"
  /\ exec' = Enter("Succeeded")
  /\ UNCHANGED <<table, lastWriter, envVars, pc, invVars>>

\* A handler task calls the upsert handler with $.ParseResult; the handler
\* reads its event under Payload.
InvokeHandler(i) ==
  /\ exec.state \in HandleTasks
  /\ ~exec.running
  /\ pc[i] \in {"idle", "done"}
  /\ Invoke(i, InputPath(exec.data).Payload)
  /\ exec' = [exec EXCEPT !.inputs = Append(@, InputPath(exec.data)), !.running = TRUE]

\* The handler's invocation is over: a return value ends the execution in
\* success, an exception fails the task, which no Retry or Catch covers.
HandlerEnds(i) ==
  /\ exec.state \in HandleTasks
  /\ exec.running
  /\ pc[i] = "done"
  /\ exec' = [Enter(IF result[i].kind = "returned" THEN "Succeeded" ELSE "Failed")
               EXCEPT !.running = FALSE]
  /\ UNCHANGED <<table, lastWriter, envVars, pc, invVars>>

\* The Lambda service fails on a handler task, before the function ran or
\* after it ended with its response lost; the task's retry repeats the call.
HandlerFault(i) ==
  /\ exec.state \in HandleTasks
  /\ exec.faults < MaxServiceFaults
  /\ ~exec.running \/ pc[i] = "done"
  /\ exec' = [exec EXCEPT !.faults = @ + 1, !.running = FALSE]
  /\ UNCHANGED <<table, lastWriter, envVars, pc, invVars>>

NextWorkflow ==
  \/ StartExecution
  \/ ParseStripeEvent
  \/ ChooseSubscriptionEventType
  \/ IgnoreUnknownEvent
  \/ \E i \in {1} :
       \/ InvokeHandler(i)
       \/ HandlerEnds(i)
       \/ HandlerFault(i)
       \/ GetTableName(i)
       \/ GetSecret(i)
       \/ RetrieveSubscription(i)
       \/ RetrieveCustomer(i)
       \/ BuildItem(i)
       \/ PutItem(i)
       \/ UpdateDeleted(i)
       \/ UpdatePaused(i)

SpecWorkflow == Init /\ [][NextWorkflow]_vars

(* ------------------------------ helpers for the properties ------------ *)
Done(i) == pc[i] = "done"
Returned(i) == Done(i) /\ result[i].kind = "returned"
RaisedError(i) == Done(i) /\ result[i].kind = "raised"
\* The invocation resolved its configuration, subscription and customer and
\* passed the presence test: it came to the dispatch on the event type.
ReachedDispatch(i) ==
  /\ Done(i)
  /\ event[i].type # ""
  /\ lookups[i] # <<>>
  /\ lookups[i][Len(lookups[i])] = "ok"
TheEmail == "a@example.com"
StampAttributes == {"last_updated", "subscription_date", "signup_timestamp"}
\* Row r2 is row r1 with exactly the attributes of updates set to its values.
IsUpdateOf(r2, r1, updates) ==
  /\ DOMAIN r2 = DOMAIN r1 \cup DOMAIN updates
  /\ \A a \in DOMAIN updates : r2[a] = updates[a]
  /\ \A a \in DOMAIN r1 \ DOMAIN updates : r2[a] = r1[a]

(* ------------------------------- C1 ----------------------------------- *)
\* C1: an invocation whose event type is none of the five lifecycle kinds,
\* and which comes to the dispatch, performs no storage call, leaves the table
\* as it was, and fails with UnsupportedEventTypeError raised as an error of
\* its own, not as the catch-all ProcessingError.
UnknownTypeOwnErrorC1 ==
  \A i \in Procs :
    (ReachedDispatch(i) /\ event[i].type \notin KnownTypes) =>
      /\ writes[i] = <<>>
      /\ table = before[i]
      /\ RaisedError(i)
      /\ result[i].cause = "UnsupportedEventTypeError"
      /\ result[i].wrapper # "ProcessingError"

(* ------------------------------- C2 ----------------------------------- *)
\* C2: a successful "deleted" update of an email that has a row leaves that
\* one row with status canceled, end_date the subscription's canceled_at,
\* last_updated the invocation's date stamp, and every other attribute as it
\* was; no row is removed.
DeletedFrameC2 ==
  [][\A i \in Procs :
       (/\ pc[i] = "write"
        /\ event[i].type = DeletedType
        /\ Returned(i)'
        /\ RowsFor(table, item[i].email) # {}) =>
         /\ Cardinality(RowsFor(table', item[i].email)) = 1
         /\ \A r1 \in RowsFor(table, item[i].email) :
              \A r2 \in RowsFor(table', item[i].email) :
                /\ r2.status = "canceled"
                /\ r2.end_date = item[i].end_date
                /\ r2.last_updated = item[i].last_updated
                /\ IsUpdateOf(r2, r1, [status |-> r2.status, end_date |-> r2.end_date,
                                       last_updated |-> r2.last_updated])
         /\ table' \ RowsFor(table', item[i].email) = table \ RowsFor(table, item[i].email)
    ]_vars

\* A full row that was active is canceled by a "deleted" event of a later day.
WitnessC2 ==
  /\ Returned(1)
  /\ event[1].type = DeletedType
  /\ \E r1 \in before[1] : \E r2 \in table :
       /\ DOMAIN r1 = Attributes
       /\ r1.status = "active"
       /\ r2.status = "canceled"
       /\ r2.end_date # r1.end_date
       /\ r2.last_updated # r1.last_updated
       /\ r2.signup_timestamp = r1.signup_timestamp

(* ------------------------------- C3 ----------------------------------- *)
\* C3: a successful "paused" update of an email that has a row leaves that
\* one row with status paused, last_updated the invocation's date stamp, and
\* every other attribute, end_date among them, as it was.
PausedFrameC3 ==
  [][\A i \in Procs :
       (/\ pc[i] = "write"
        /\ event[i].type = PausedType
        /\ Returned(i)'
        /\ RowsFor(table, item[i].email) # {}) =>
         /\ Cardinality(RowsFor(table', item[i].email)) = 1
         /\ \A r1 \in RowsFor(table, item[i].email) :
              \A r2 \in RowsFor(table', item[i].email) :
                /\ r2.status = "paused"
                /\ r2.last_updated = item[i].last_updated
                /\ IsUpdateOf(r2, r1, [status |-> r2.status,
                                       last_updated |-> r2.last_updated])
         /\ table' \ RowsFor(table', item[i].email) = table \ RowsFor(table, item[i].email)
    ]_vars

\* A canceled full row is paused on a later day while Stripe's canceled_at
\* differs from the stored end_date, which stays.
WitnessC3 ==
  /\ Returned(1)
  /\ event[1].type = PausedType
  /\ \E r1 \in before[1] : \E r2 \in table :
       /\ DOMAIN r1 = Attributes
       /\ r1.status = "canceled"
       /\ r2.status = "paused"
       /\ r2.end_date = r1.end_date
       /\ r2.end_date # stripe["sub_1"].canceled_at
       /\ r2.last_updated # r1.last_updated

(* ------------------------------- C4 ----------------------------------- *)
\* C4 as stated: a created, resumed or updated event processed a second time
\* in succession, with the same upstream subscription and customer data,
\* leaves the table exactly as the first run left it.
ReplayIdempotentC4 ==
  \A i \in Procs :
    (replay[i] /\ event[i].type \in UpsertTypes /\ SucceededWith(i, "put_item")) =>
      table = before[i]

\* C4 as amended: the second run replaces the row by its own item, which
\* equals the row the first run left in every attribute but the three time
\* stamps (last_updated, subscription_date, signup_timestamp), and they are
\* the second run's clock readings; no other row changes.
ReplayKeepsAllButStampsC4 ==
  \A i \in Procs :
    (replay[i] /\ event[i].type \in UpsertTypes /\ SucceededWith(i, "put_item")) =>
      LET it == writes[i][1].arg IN
        /\ RowsFor(table, it.email) = {it}
        /\ Cardinality(RowsFor(before[i], it.email)) = 1
        /\ \A r1 \in RowsFor(before[i], it.email) :
             /\ DOMAIN r1 = DOMAIN it
             /\ \A a \in DOMAIN it \ StampAttributes : it[a] = r1[a]
             /\ \A a \in StampAttributes : it[a] >= r1[a]
        /\ table \ RowsFor(table, it.email) = before[i] \ RowsFor(before[i], it.email)

\* An "updated" event is replayed after the clock moved on: the row's stamps move.
WitnessC4 ==
  /\ replay[1]
  /\ event[1].type = "customer.subscription.updated"
  /\ SucceededWith(1, "put_item")
  /\ \E r1 \in before[1] : \E r2 \in table :
       /\ r2.signup_timestamp > r1.signup_timestamp
       /\ r2.last_updated > r1.last_updated

(* ------------------------------- C5 ----------------------------------- *)
\* C5: retrieve_customer looks the customer up at most 5 times; every lookup
\* before the last one made ended in resource_missing; a lookup that ends
\* otherwise (success or another error) ends the loop at once, with no wait
\* after it: there is one wait per retried failure, and none after the fifth.
RetryPolicyC5 ==
  \A i \in Procs :
    LET L == lookups[i]
        n == Len(L)
    IN /\ n <= 5
       /\ \A j \in 1 .. n - 1 : L[j] = "resource_missing"
       /\ pc[i] = "fetch_cus" => n < 5 /\ attempt[i] = n + 1
       /\ (n > 0 /\ L[n] # "resource_missing") =>
            /\ pc[i] # "fetch_cus"
            /\ Len(sleeps[i]) = n - 1
       /\ (n > 0 /\ L[n] = "resource_missing") =>
            /\ Len(sleeps[i]) = IF n = 5 THEN 4 ELSE n
            /\ n = 5 => pc[i] # "fetch_cus"

\* Four not-found lookups, then a fifth that fails otherwise and ends the loop.
WitnessC5 ==
  /\ Len(lookups[1]) = 5
  /\ lookups[1][4] = "resource_missing"
  /\ lookups[1][5] = "stripe_error"
  /\ Len(sleeps[1]) = 4
  /\ RaisedError(1)

(* ------------------------------- C6 ----------------------------------- *)
\* C6: five not-found lookups end the invocation with CustomerResolutionError,
\* raised after exactly five lookups, with no storage call issued and the
\* table as it was before the invocation.
AllNotFoundC6 ==
  \A i \in Procs :
    LET L == lookups[i]
        allMissing == \A j \in 1 .. Len(L) : L[j] = "resource_missing"
    IN /\ (Len(L) = 5 /\ allMissing) =>
            /\ RaisedError(i)
            /\ result[i].cause = "CustomerResolutionError"
            /\ writes[i] = <<>>
            /\ table = before[i]
       /\ (Done(i) /\ result[i].cause = "CustomerResolutionError") =>
            Len(L) = 5 /\ allMissing

\* The customer of an email that has a row is not found five times over.
WitnessC6 ==
  /\ RaisedError(1)
  /\ result[1].cause = "CustomerResolutionError"
  /\ Len(lookups[1]) = 5
  /\ before[1] # {}
  /\ table = before[1]

(* ------------------------------- C7 ----------------------------------- *)
\* C7: an invocation ends either by raising an error or by returning the
\* success payload (message, subscription_id, customer_id, operation,
\* updated_fields) after a storage call that succeeded; it never returns
\* without one.
RaisesOrReturnsSuccessC7 ==
  \A i \in Procs :
    Done(i) =>
      \/ RaisedError(i)
      \/ /\ Returned(i)
         /\ DOMAIN result[i].payload =
              {"message", "subscription_id", "customer_id", "operation", "updated_fields"}
         /\ writes[i] # <<>>
         /\ writes[i][Len(writes[i])].ok

(* ------------------------------- C8 ----------------------------------- *)
\* C8 as stated: when two concurrent invocations for "updated" events of the
\* same subscriber have both stored their item, the row is the same whichever
\* put_item ran last: it is the item of the one and of the other.
ConvergeC8 ==
  (SucceededWith(1, "put_item") /\ SucceededWith(2, "put_item")) =>
    /\ RowsFor(table, TheEmail) = {writes[1][1].arg}
    /\ RowsFor(table, TheEmail) = {writes[2][1].arg}

\* C8 as amended: the row is the item of the invocation whose put_item ran
\* last (so the two leave the same row in every interleaving only when they
\* derived the same item: same upstream snapshot, same clock readings).
LastWriteWinsC8 ==
  (SucceededWith(1, "put_item") /\ SucceededWith(2, "put_item")) =>
    /\ lastWriter \in {1, 2}
    /\ table = {writes[lastWriter][1].arg}

\* Invocation 2 read Stripe's current state, invocation 1 an older one, and
\* invocation 1 stored its item last: the row is stale.
WitnessC8 ==
  /\ SucceededWith(1, "put_item")
  /\ SucceededWith(2, "put_item")
  /\ lastWriter = 1
  /\ writes[2][1].arg.status = stripe["sub_1"].status
  /\ writes[1][1].arg.status # stripe["sub_1"].status
  /\ \E r \in table : r.status # stripe["sub_1"].status

(* ------------------------------- C9 ----------------------------------- *)
\* C9: a "deleted" or "paused" event processed for an email that has no row
\* creates none, and an email never has more than one row.
RowOnlyFromUpsertC9 ==
  \A e \in Emails :
    /\ Cardinality(RowsFor(table, e)) <= 1
    /\ \A i \in Procs :
         (Done(i) /\ event[i].type \in {DeletedType, PausedType}
                  /\ RowsFor(before[i], e) = {}) =>
           RowsFor(table, e) = {}

(* ------------------------------- C10 ---------------------------------- *)
\* C10 as stated, of the rows a created, resumed or updated event stored:
\* when the processing of an event changes a stored status that was canceled
\* or paused, the event was a created, resumed or updated one.
LeavesOnlyByUpsertC10 ==
  \A i \in Procs : \A e \in Emails :
    Done(i) =>
      \A r1 \in RowsFor(before[i], e) : \A r2 \in RowsFor(table, e) :
        (/\ DOMAIN r1 = Attributes
         /\ r1.status \in {"canceled", "paused"}
         /\ r2.status # r1.status) =>
          event[i].type \in UpsertTypes

\* C10 as amended: when the processing of an event takes a stored status
\* that was canceled or paused to a status that is neither, the event was a
\* created, resumed or updated one; a "deleted" event leaves the status
\* canceled (also of a paused row) and a "paused" event leaves it paused
\* (also of a canceled row).
LeavesCanceledPausedOnlyByUpsertC10 ==
  \A i \in Procs : \A e \in Emails :
    Done(i) =>
      \A r1 \in RowsFor(before[i], e) : \A r2 \in RowsFor(table, e) :
        /\ (r1.status \in {"canceled", "paused"} /\ r2.status \notin {"canceled", "paused"}) =>
             event[i].type \in UpsertTypes
        /\ SucceededWith(i, "update_item") =>
             r2.status = IF event[i].type = DeletedType THEN "canceled" ELSE "paused"

\* A canceled row is made active again by an "updated" event.
WitnessC10 ==
  /\ SucceededWith(1, "put_item")
  /\ event[1].type = "customer.subscription.updated"
  /\ \E r1 \in before[1] : \E r2 \in table :
       r1.status = "canceled" /\ r2.status = "active"
\* C11 (as stated): the wait after failed attempt k lies in [base, base*1.1)
\* for base = 5*2^(k-1) seconds, whatever the random source returned, and the
\* waits of successive attempts never decrease.
WaitsInHalfOpenRangeC11 ==
  /\ \A k \in 1 .. Len(sleeps[1]) :
       /\ 5 * (2 ^ (k - 1)) * Scale <= sleeps[1][k]
       /\ 10 * sleeps[1][k] < 11 * 5 * (2 ^ (k - 1)) * Scale
  /\ \A k \in 1 .. Len(sleeps[1]) - 1 : sleeps[1][k] <= sleeps[1][k + 1]

\* C11 (amended): the wait after failed attempt k lies in [base, base*1.1],
\* the upper end included, for base = 5*2^(k-1) seconds, and the waits of
\* successive attempts never decrease.
WaitsInClosedRangeC11 ==
  /\ \A k \in 1 .. Len(sleeps[1]) :
       /\ 5 * (2 ^ (k - 1)) * Scale <= sleeps[1][k]
       /\ 10 * sleeps[1][k] <= 11 * 5 * (2 ^ (k - 1)) * Scale
  /\ \A k \in 1 .. Len(sleeps[1]) - 1 : sleeps[1][k] <= sleeps[1][k + 1]

\* Four waits were slept: the first with no jitter, the second with some,
\* the last rounded up to 1.1 times its base.
WitnessC11 ==
  /\ Len(sleeps[1]) = 4
  /\ sleeps[1][1] = 5 * Scale
  /\ sleeps[1][2] > 10 * Scale
  /\ 10 * sleeps[1][2] < 11 * 10 * Scale
  /\ 10 * sleeps[1][4] = 11 * 40 * Scale

\* The execution is over.
Ended == exec.state \in {"Succeeded", "Failed"}
\* The Normalizer returned and its result is in the state's data.
Normalized == exec.parsed = 1 /\ "ParseResult" \in DOMAIN exec.data
\* What C12 says of every execution but the number of times the Upserter is
\* invoked: the Normalizer's state is the first and is entered once; a
\* handler state is entered at most once and only after the Normalizer
\* returned; the Upserter is invoked only in a handler state, each time with
\* the task result of the Normalizer, whose Payload is the Normalizer's
\* return value; an event whose detail-type is not one of the five kinds
\* reaches no handler, changes nothing in storage and ends the execution
\* through IgnoreUnknownEvent.
WorkflowOrder ==
  /\ exec.state # "NotStarted" =>
       /\ exec.visited[1] = "ParseStripeEvent"
       /\ \A k \in 2 .. Len(exec.visited) : exec.visited[k] # "ParseStripeEvent"
  /\ exec.parsed <= 1
  /\ Cardinality({k \in 1 .. Len(exec.visited) : exec.visited[k] \in HandleTasks}) <= 1
  /\ \A k \in 1 .. Len(exec.visited) :
       exec.visited[k] \in HandleTasks =>
         /\ Normalized
         /\ k = 3
         /\ exec.data.type \in KnownTypes
  /\ exec.inputs # <<>> =>
       /\ \E k \in 1 .. Len(exec.visited) : exec.visited[k] \in HandleTasks
       /\ \A k \in 1 .. Len(exec.inputs) :
            /\ exec.inputs[k] = exec.data.ParseResult
            /\ exec.inputs[k].Payload = [type |-> exec.data.type, id |-> exec.data.id]
  /\ (exec.state # "NotStarted" /\ exec.data.type \notin KnownTypes) =>
       /\ exec.inputs = <<>>
       /\ table = {}
       /\ pc[1] = "idle"
       /\ exec.state = "Succeeded" =>
             exec.visited = <<"ParseStripeEvent", "ChooseSubscriptionEventType",
                              "IgnoreUnknownEvent", "Succeeded">>

\* C12 (as stated): the Normalizer runs first; the Upserter is invoked at
\* most once and only after the Normalizer succeeded; an execution for one of
\* the five kinds that ran to its end past the Normalizer invoked it exactly
\* once, with the Normalizer's result; an execution for any other detail-type
\* never invokes it and goes through IgnoreUnknownEvent with storage untouched.
UpserterInvokedOnceC12 ==
  /\ WorkflowOrder
  /\ Len(exec.inputs) <= 1
  /\ (Ended /\ Normalized /\ exec.data.type \in KnownTypes) => Len(exec.inputs) = 1

\* C12 (amended): as above, but the Upserter is invoked once and once more
\* for each Lambda service exception its task met and retried; an execution
\* for one of the five kinds that ended in success invoked it at least once.
UpserterInvokedOncePerAttemptC12 ==
  /\ WorkflowOrder
  /\ Len(exec.inputs) <= 1 + exec.faults
  /\ (exec.state = "Succeeded" /\ exec.data.type \in KnownTypes) =>
       /\ Len(exec.inputs) >= 1
       /\ Returned(1)

\* An execution for a deleted event ended in success after its handler task
\* met a service exception: the Upserter ran twice and storage was changed.
WitnessC12 ==
  /\ exec.state = "Succeeded"
  /\ exec.data.type = DeletedType
  /\ exec.visited = <<"ParseStripeEvent", "ChooseSubscriptionEventType",
                      "HandleSubscriptionDeleted", "Succeeded">>
  /\ Len(exec.inputs) = 2
  /\ table # {}

(* ------------------------------- C13 ---------------------------------- *)
\* An invocation has issued at most one storage call, and one that issued
\* none or whose call failed has left the table as it found it.
AtMostOneWrite ==
  \A i \in Procs :
    /\ Len(writes[i]) <= 1
    /\ writes[i] # <<>> =>
         /\ Done(i)
         /\ lookups[i] # <<>>
         /\ lookups[i][Len(lookups[i])] = "ok"
         /\ event[i].type # ""
    /\ (pc[i] # "idle" /\ (writes[i] = <<>> \/ ~writes[i][1].ok)) => table = before[i]

\* The steps of an invocation follow one another in the order of the code:
\* table name, secret, subscription, customer, presence test, storage call.
StepsInOrder ==
  \A i \in Procs :
    /\ pc'[i] # pc[i] =>
         /\ pc'[i] = "config" => pc[i] \in {"idle", "done"}
         /\ pc'[i] = "secret" => pc[i] = "config"
         /\ pc'[i] = "fetch_sub" => pc[i] = "secret"
         /\ pc'[i] = "fetch_cus" => pc[i] = "fetch_sub" /\ sub'[i].customer # None
         /\ pc'[i] = "build" =>
              /\ pc[i] = "fetch_cus"
              /\ lookups'[i][Len(lookups'[i])] = "ok"
         /\ pc'[i] = "write" => pc[i] = "build" /\ event[i].type # ""
    /\ (writes'[i] # writes[i] /\ writes'[i] # <<>>) =>
         /\ pc[i] = "write"
         /\ pc'[i] = "done"
         /\ writes[i] = <<>>
    /\ (table' # table /\ lastWriter' = i) => writes'[i] # writes[i]

\* C13: every invocation issues at most one storage call (put_item or
\* update_item), and only after the configuration, the subscription lookup,
\* the customer lookup and the presence test succeeded, in that order; an
\* invocation that ends at an earlier step leaves the table exactly as it
\* was before the invocation.
OneWriteAfterAllStepsC13 == [][StepsInOrder /\ AtMostOneWrite']_vars

\* An invocation ended in success with its one update_item call, after a
\* customer lookup that was retried once, and the table has changed.
WitnessC13 ==
  /\ SucceededWith(1, "update_item")
  /\ Len(writes[1]) = 1
  /\ lookups[1] = <<"resource_missing", "ok">>
  /\ table # before[1]

====
